---- MODULE Spec2Model ----
(***************************************************************************)
(* Model of the quantitative decision pipeline:                            *)
(*   - MockTradeExecutor (src/src/decision/trade_executor.py): the         *)
(*     simulated ledger (cash, positions, trade_history), called           *)
(*     sequentially and from concurrent threads;                           *)
(*   - RiskControlAgent.run (src/src/decision/risk_control.py): the        *)
(*     ordered rule chain, one step per rule;                              *)
(*   - DecisionMaker._generate_decision and _calculate_composite_score     *)
(*     (src/src/decision/decision_maker.py) and                            *)
(*     FactorCompositor.calculate_composite_score                          *)
(*     (src/src/quant/factors.py): functions applied to bounded inputs;    *)
(*   - TradeExecutor (src/src/decision/trade_executor.py): orders and      *)
(*     logs, called directly and behind the risk gate.                     *)
(*                                                                         *)
(* Money.  Prices are whole currency units; amounts (cash, cost, revenue)  *)
(* are exact decimals held in cents.  Every price used is a multiple of    *)
(* 100, so price * quantity * 1.0003 and price * quantity * 0.9997 are     *)
(* whole numbers of cents and no rounding takes place.  avg_cost is an     *)
(* exact fraction <<numerator, denominator>> in lowest terms.              *)
(***************************************************************************)
EXTENDS Integers, Sequences, FiniteSets, TLC

VARIABLES
    initial_capital,  \* MockTradeExecutor.initial_capital (cents)
    cash,             \* MockTradeExecutor.cash (cents)
    positions,        \* MockTradeExecutor.positions: symbol -> [quantity, avg_cost]
    trade_history,    \* MockTradeExecutor.trade_history
    last,             \* the most recent sequential buy/sell call and what it returned
    threads,          \* the concurrent callers of buy/sell: thread -> call frame
    config,           \* RiskControlAgent.config
    config_arg,       \* run's config argument
    r_pc,             \* RiskControlAgent.run: the rule about to be evaluated
    decision,         \* run's decision argument
    portfolio,        \* run's portfolio argument
    adjusted_position,\* run's local adjusted_position
    risk_level,       \* run's local risk_level
    warnings,         \* run's local warnings
    reasons,          \* run's local reasons
    check_result,     \* the RiskCheckResult run returned
    composite_score,  \* _generate_decision's composite_score argument (tenths)
    decision_result,  \* the DecisionResult _generate_decision returned
    s_pc,             \* which composite score function has been called
    factors,          \* calculate_composite_score's factors argument
    weights,          \* calculate_composite_score's weights argument
    sentiment_score,  \* _calculate_composite_score's sentiment_score argument (tenths)
    score,            \* the composite score returned
    orders,           \* TradeExecutor.orders
    logs,             \* TradeExecutor.logs
    now,              \* the second datetime.now() shows
    calls,            \* how many calls this executor has answered
    request,          \* the arguments of the last call of run / run_with_decision
    response,         \* the AgentResponse that call returned
    df,               \* calculate_all_indicators' df argument
    all_indicators    \* the dictionary calculate_all_indicators returned

ledgerVars == <<initial_capital, cash, positions, trade_history, last>>
riskVars == <<config, config_arg, r_pc, decision, portfolio, adjusted_position, risk_level,
              warnings, reasons, check_result>>
scoreVars == <<s_pc, factors, weights, sentiment_score, score>>
decisionVars == <<composite_score, decision_result, scoreVars>>
execVars == <<orders, logs, now, calls, request, response>>
indicatorVars == <<df, all_indicators>>
nonLedgerVars == <<riskVars, decisionVars, execVars, indicatorVars>>
nonRiskVars == <<ledgerVars, threads, decisionVars, execVars, indicatorVars>>
nonDecisionVars == <<ledgerVars, threads, riskVars, execVars, indicatorVars>>
nonExecVars == <<ledgerVars, threads, riskVars, decisionVars, indicatorVars>>
nonIndicatorVars == <<ledgerVars, threads, riskVars, decisionVars, execVars>>
vars == <<ledgerVars, threads, riskVars, decisionVars, execVars, indicatorVars>>

(***************************************************************************)
(* Bounds and input sets                                                   *)
(***************************************************************************)
MaxTrades == 4
MaxConcTrades == 2

Threads == {1, 2}

Symbols == {"A", "B"}
Prices == {100, 200}
Quantities == {1, 100}
QuantitiesNonNeg == {0, 1, 100}
QuantitiesSigned == {-100, -1, 1, 100}
InitialCapitals == {0, 25000, 100000000}

BuyFeeFactor == 10003
SellFeeFactor == 9997

(***************************************************************************)
(* Exact fractions                                                         *)
(***************************************************************************)
Abs(x) == IF x < 0 THEN -x ELSE x

RECURSIVE GCD(_, _)
GCD(a, b) == IF b = 0 THEN a ELSE GCD(b, a % b)

\* n / d in lowest terms with a positive denominator (d # 0)
Frac(n, d) ==
    LET g == GCD(Abs(n), Abs(d))
        s == IF d < 0 THEN -1 ELSE 1
    IN  <<(s * n) \div g, (s * d) \div g>>

(***************************************************************************)
(* MockTradeExecutor                                                       *)
(***************************************************************************)
BuyCostWithoutFee(price, quantity) == price * quantity * 100

\* cost = price * quantity * 1.0003, in cents
BuyCost(price, quantity) == (price * quantity * BuyFeeFactor) \div 100

\* revenue = price * quantity * 0.9997, in cents
SellRevenue(price, quantity) == (price * quantity * SellFeeFactor) \div 100

BuyRejectedNever(cost, c) == FALSE

\* if cost > self.cash: return False
BuyRejected(cost, c) == cost > c

NewAvgCostUnweighted(old_cost, old_qty, price, quantity) ==
    Frac(old_cost[1] + price * old_cost[2], 2 * old_cost[2])

\* new_cost = (old_cost * old_qty + price * quantity) / new_qty
NewAvgCost(old_cost, old_qty, price, quantity) ==
    Frac(old_cost[1] * old_qty + price * quantity * old_cost[2],
         old_cost[2] * (old_qty + quantity))

RecordTradeReplacing(history, symbol, action, price, quantity, amount) ==
    <<[symbol |-> symbol, action |-> action, price |-> price,
       quantity |-> quantity, amount |-> amount]>>

\* self.trade_history.append({...}); the timestamp field is left out
RecordTrade(history, symbol, action, price, quantity, amount) ==
    Append(history, [symbol |-> symbol, action |-> action, price |-> price,
                     quantity |-> quantity, amount |-> amount])

\* positions after the position update of a buy that raised nothing
PositionsAfterBuy(pos, symbol, price, quantity) ==
    IF symbol \in DOMAIN pos
    THEN [pos EXCEPT ![symbol] =
            [quantity |-> pos[symbol].quantity + quantity,
             avg_cost |-> NewAvgCost(pos[symbol].avg_cost, pos[symbol].quantity,
                                     price, quantity)]]
    ELSE [s \in DOMAIN pos \cup {symbol} |->
            IF s = symbol THEN [quantity |-> quantity, avg_cost |-> <<price, 1>>]
            ELSE pos[s]]

\* if symbol not in self.positions: return False
\* if self.positions[symbol]['quantity'] < quantity: return False
SellRejected(pos, symbol, quantity) ==
    \/ symbol \notin DOMAIN pos
    \/ pos[symbol].quantity < quantity

PositionsAfterSellKeepingEntry(pos, symbol, quantity) ==
    [pos EXCEPT ![symbol].quantity = @ - quantity]

\* self.positions[symbol]['quantity'] -= quantity; del the entry when it is 0
PositionsAfterSell(pos, symbol, quantity) ==
    IF pos[symbol].quantity - quantity = 0
    THEN [s \in DOMAIN pos \ {symbol} |-> pos[s]]
    ELSE [pos EXCEPT ![symbol].quantity = @ - quantity]

RECURSIVE PositionValue(_, _, _)
\* get_portfolio_value: position_value over the held symbols `held`, in cents;
\* a symbol without a price adds nothing
PositionValue(held, pos, prices) ==
    IF held = {} THEN 0
    ELSE LET symbol == CHOOSE x \in held : TRUE
         IN  (IF symbol \in DOMAIN prices
              THEN pos[symbol].quantity * prices[symbol] * 100 ELSE 0)
             + PositionValue(held \ {symbol}, pos, prices)

\* MockTradeExecutor.get_portfolio_value(prices), in cents
GetPortfolioValue(prices) == cash + PositionValue(DOMAIN positions, positions, prices)

\* MockTradeExecutor.get_returns(prices): the percentage as an exact fraction,
\* or the exception the division raises
GetReturns(prices) ==
    IF initial_capital = 0
    THEN [raised |-> "ZeroDivisionError", value |-> <<0, 1>>]
    ELSE [raised |-> "none",
          value |-> Frac((GetPortfolioValue(prices) - initial_capital) * 100,
                         initial_capital)]

Call(op, symbol, price, quantity, result) ==
    [op |-> op, symbol |-> symbol, price |-> price, quantity |-> quantity,
     result |-> result]

\* MockTradeExecutor.buy(symbol, price, quantity)
BuyCall(symbol, price, quantity) ==
    LET cost == BuyCost(price, quantity) IN
    IF BuyRejected(cost, cash)
    THEN /\ last' = Call("buy", symbol, price, quantity, "False")
         /\ UNCHANGED <<initial_capital, cash, positions, trade_history>>
    ELSE IF symbol \in DOMAIN positions /\ positions[symbol].quantity + quantity = 0
    THEN \* new_qty = 0: the division raises ZeroDivisionError after the debit
         /\ cash' = cash - cost
         /\ last' = Call("buy", symbol, price, quantity, "ZeroDivisionError")
         /\ UNCHANGED <<initial_capital, positions, trade_history>>
    ELSE /\ cash' = cash - cost
         /\ positions' = PositionsAfterBuy(positions, symbol, price, quantity)
         /\ trade_history' = RecordTrade(trade_history, symbol, "buy", price, quantity, cost)
         /\ last' = Call("buy", symbol, price, quantity, "True")
         /\ UNCHANGED initial_capital

\* MockTradeExecutor.sell(symbol, price, quantity)
SellCall(symbol, price, quantity) ==
    IF SellRejected(positions, symbol, quantity)
    THEN /\ last' = Call("sell", symbol, price, quantity, "False")
         /\ UNCHANGED <<initial_capital, cash, positions, trade_history>>
    ELSE LET revenue == SellRevenue(price, quantity) IN
         /\ cash' = cash + revenue
         /\ positions' = PositionsAfterSell(positions, symbol, quantity)
         /\ trade_history' = RecordTrade(trade_history, symbol, "sell", price, quantity, revenue)
         /\ last' = Call("sell", symbol, price, quantity, "True")
         /\ UNCHANGED initial_capital

NoCall == Call("none", "", 0, 0, "none")
\* a caller that is in no call
IdleFrame ==
    [pc |-> "idle", op |-> "none", symbol |-> "", price |-> 0, quantity |-> 0,
     amount |-> 0, loaded |-> 0, result |-> "none"]
NoThreads == [t \in Threads |-> IdleFrame]

\* MockTradeExecutor.__init__(initial_capital)
LedgerInit ==
    /\ initial_capital \in InitialCapitals
    /\ cash = initial_capital
    /\ positions = <<>>
    /\ trade_history = <<>>
    /\ last = NoCall

(***************************************************************************)
(* RiskControlAgent                                                        *)
(*                                                                         *)
(* decision['decision'] is one of the five tier labels; the model writes   *)
(* strong_buy, buy, hold, sell, strong_sell for the source's labels.       *)
(* warnings and reasons hold one tag per message the source appends.       *)
(***************************************************************************)
Tiers == {"strong_buy", "buy", "hold", "sell", "strong_sell"}
DecisionPositions == {0, 1, 40}
Confidences == {2, 5}
HeldPositions == {10, 35}
TotalPositions == {0, 60, 80, 90}
LossValues == {15, -20}
Drawdowns == {20, 25}

\* self.config as set by __init__
DefaultConfig ==
    [max_single_position |-> 30, max_total_position |-> 80, max_positions |-> 10,
     max_loss_per_stock |-> 15, max_drawdown |-> 20]

\* the config arguments tried: None, and overrides of single keys
NoOverride == <<>>
ConfigOverrides ==
    {NoOverride,
     [k \in {"max_positions"} |-> 2], [k \in {"max_positions"} |-> 10],
     [k \in {"max_single_position"} |-> 20], [k \in {"max_single_position"} |-> 30]}

Decisions ==
    [decision : Tiers, position : DecisionPositions, confidence : Confidences,
     symbol : Symbols]

HeldEntries == [symbol : Symbols, position : HeldPositions]

\* portfolio['positions']: lists of up to two entries
PositionLists ==
    {<<>>} \cup {<<e>> : e \in HeldEntries}
           \cup {<<e1, e2>> : e1 \in HeldEntries, e2 \in HeldEntries}

\* portfolio: positions, total_position, '<symbol>_loss' per symbol, drawdown
Portfolios ==
    [positions : PositionLists, total_position : TotalPositions,
     loss : [Symbols -> LossValues], drawdown : Drawdowns]

\* self.config.update(config)
ConfigUpdate(cfg, override) ==
    [k \in DOMAIN cfg |-> IF k \in DOMAIN override THEN override[k] ELSE cfg[k]]

IsSellDecisionStrongOnly(d) == d.decision = "strong_sell"

\* decision.get('decision') in ['强烈卖出', '卖出']
IsSellDecision(d) == d.decision \in {"strong_sell", "sell"}

NotHalved(position) == position

Doubled(position) == position * 2

\* int(adjusted_position * 0.5), for a position >= 0
Halved(position) == position \div 2

ExceedsTotalIgnoringHeld(total, position, cfg) == position > cfg.max_total_position

\* new_total = current_total_position + adjusted_position
\* if new_total > self.config['max_total_position']
ExceedsTotal(total, position, cfg) == total + position > cfg.max_total_position

LossExceededSigned(loss, cfg) == loss > cfg.max_loss_per_stock

\* position_loss = abs(portfolio.get(f'{symbol}_loss', 0))
\* if position_loss > self.config['max_loss_per_stock']
LossExceeded(loss, cfg) == Abs(loss) > cfg.max_loss_per_stock

RECURSIVE GetPositionBySymbol(_, _)
\* RiskControlAgent._get_position_by_symbol: the first entry of the symbol, else 0
GetPositionBySymbol(held, symbol) ==
    IF held = <<>> THEN 0
    ELSE IF Head(held).symbol = symbol THEN Head(held).position
    ELSE GetPositionBySymbol(Tail(held), symbol)

ExistingPosition == GetPositionBySymbol(portfolio.positions, decision.symbol)

RiskCheckResult(approved, level, warns, position, why) ==
    [approved |-> approved, risk_level |-> level, warnings |-> warns,
     adjusted_position |-> position, reasons |-> why]

NoResult == RiskCheckResult(FALSE, "none", <<>>, 0, <<>>)
NoDecision == [decision |-> "none", position |-> 0, confidence |-> 0, symbol |-> ""]
NoPortfolio ==
    [positions |-> <<>>, total_position |-> 0, loss |-> [s \in Symbols |-> 0],
     drawdown |-> 0]

\* RiskControlAgent.run as a function of the configuration in force, the
\* decision and the portfolio: rules 1 to 7 and the final verdict
RunResult(cfg, d, pf) ==
    IF IsSellDecision(d)
    THEN RiskCheckResult(FALSE, "high", <<"sell_decision">>, 0, <<"sell_signal">>)
    ELSE
    LET low == d.confidence < 5
        p2 == IF low THEN Halved(d.position) ELSE d.position
        w2 == IF low THEN <<"low_confidence_halved">> ELSE <<>>
        l2 == IF low THEN "medium" ELSE "low"
    IN
    IF Len(pf.positions) >= cfg.max_positions
    THEN RiskCheckResult(FALSE, "high", Append(w2, "position_count_limit"), 0,
                         <<"position_count_exceeded">>)
    ELSE
    LET over == ExceedsTotal(pf.total_position, p2, cfg)
        available == cfg.max_total_position - pf.total_position
        p4 == IF ~over THEN p2 ELSE IF available > 0 THEN available ELSE 0
        w4 == IF over /\ available > 0 THEN Append(w2, "total_position_clamped") ELSE w2
        r4 == IF over /\ available <= 0 THEN <<"total_position_full">> ELSE <<>>
        l4 == IF over /\ available <= 0 THEN "high" ELSE l2
        existing == GetPositionBySymbol(pf.positions, d.symbol)
        clamp == existing # 0 /\ existing + p4 > cfg.max_single_position
        p5 == IF ~clamp THEN p4
              ELSE IF cfg.max_single_position - existing < 0 THEN 0
              ELSE cfg.max_single_position - existing
        w5 == IF clamp THEN Append(w4, "single_position_clamped") ELSE w4
        l5 == IF clamp THEN "medium" ELSE l4
        lost == existing # 0 /\ LossExceeded(pf.loss[d.symbol], cfg)
        p6 == IF lost THEN 0 ELSE p5
        r6 == IF lost THEN Append(r4, "stock_loss_exceeded") ELSE r4
        l6 == IF lost THEN "high" ELSE l5
        drawn == pf.drawdown > cfg.max_drawdown
        p7 == IF drawn THEN 0 ELSE p6
        r7 == IF drawn THEN Append(r6, "drawdown_exceeded") ELSE r6
        l7 == IF drawn THEN "high" ELSE l6
    IN  RiskCheckResult(r7 = <<>>, l7, w5, p7, r7)

\* RiskControlAgent.__init__
RiskInit ==
    /\ config = DefaultConfig
    /\ config_arg = NoOverride
    /\ r_pc = "idle"
    /\ decision = NoDecision
    /\ portfolio = NoPortfolio
    /\ adjusted_position = 0
    /\ risk_level = "none"
    /\ warnings = <<>>
    /\ reasons = <<>>
    /\ check_result = NoResult

\* run(decision, portfolio, config): the config update and the locals
RunEnter ==
    /\ r_pc = "idle"
    /\ \E d \in Decisions, pf \in Portfolios, override \in ConfigOverrides :
          /\ config' = ConfigUpdate(config, override)
          /\ config_arg' = override
          /\ decision' = d
          /\ portfolio' = pf
          /\ adjusted_position' = d.position
    /\ warnings' = <<>>
    /\ reasons' = <<>>
    /\ risk_level' = "low"
    /\ check_result' = NoResult
    /\ r_pc' = "rule1"
    /\ UNCHANGED nonRiskVars

\* a return of run with the given RiskCheckResult
RunReturn(res) ==
    /\ check_result' = res
    /\ r_pc' = "returned"

\* rule 1: a sell decision is rejected at once
Rule1Decision ==
    /\ r_pc = "rule1"
    /\ IF IsSellDecision(decision)
       THEN RunReturn(RiskCheckResult(FALSE, "high", <<"sell_decision">>, 0,
                                      <<"sell_signal">>))
       ELSE r_pc' = "rule2" /\ UNCHANGED check_result
    /\ UNCHANGED <<config, config_arg, decision, portfolio, adjusted_position, risk_level,
                   warnings, reasons, nonRiskVars>>

\* rule 2: confidence < 5 halves the position
Rule2Confidence ==
    /\ r_pc = "rule2"
    /\ IF decision.confidence < 5
       THEN /\ adjusted_position' = Halved(adjusted_position)
            /\ warnings' = Append(warnings, "low_confidence_halved")
            /\ risk_level' = "medium"
       ELSE UNCHANGED <<adjusted_position, warnings, risk_level>>
    /\ r_pc' = "rule3"
    /\ UNCHANGED <<config, config_arg, decision, portfolio, reasons, check_result, nonRiskVars>>

\* rule 3: the number of held symbols
Rule3PositionCount ==
    /\ r_pc = "rule3"
    /\ IF Len(portfolio.positions) >= config.max_positions
       THEN /\ warnings' = Append(warnings, "position_count_limit")
            /\ reasons' = Append(reasons, "position_count_exceeded")
            /\ RunReturn(RiskCheckResult(FALSE, "high", warnings', 0, reasons'))
       ELSE /\ r_pc' = "rule4"
            /\ UNCHANGED <<warnings, reasons, check_result>>
    /\ UNCHANGED <<config, config_arg, decision, portfolio, adjusted_position, risk_level,
                   nonRiskVars>>

\* rule 4: the total position
Rule4TotalPosition ==
    /\ r_pc = "rule4"
    /\ LET available == config.max_total_position - portfolio.total_position IN
       IF ExceedsTotal(portfolio.total_position, adjusted_position, config)
       THEN IF available > 0
            THEN /\ adjusted_position' = available
                 /\ warnings' = Append(warnings, "total_position_clamped")
                 /\ UNCHANGED <<reasons, risk_level>>
            ELSE /\ adjusted_position' = 0
                 /\ reasons' = Append(reasons, "total_position_full")
                 /\ risk_level' = "high"
                 /\ UNCHANGED warnings
       ELSE UNCHANGED <<adjusted_position, warnings, reasons, risk_level>>
    /\ r_pc' = "rule5"
    /\ UNCHANGED <<config, config_arg, decision, portfolio, check_result, nonRiskVars>>

\* rule 5: the position of the decision's symbol, when it is held
Rule5SinglePosition ==
    /\ r_pc = "rule5"
    /\ IF /\ ExistingPosition # 0
          /\ ExistingPosition + adjusted_position > config.max_single_position
       THEN /\ adjusted_position' =
                 IF config.max_single_position - ExistingPosition < 0 THEN 0
                 ELSE config.max_single_position - ExistingPosition
            /\ warnings' = Append(warnings, "single_position_clamped")
            /\ risk_level' = "medium"
       ELSE UNCHANGED <<adjusted_position, warnings, risk_level>>
    /\ r_pc' = "rule6"
    /\ UNCHANGED <<config, config_arg, decision, portfolio, reasons, check_result, nonRiskVars>>

\* rule 6: the loss on the decision's symbol, when it is held
Rule6StockLoss ==
    /\ r_pc = "rule6"
    /\ IF /\ ExistingPosition # 0
          /\ LossExceeded(portfolio.loss[decision.symbol], config)
       THEN /\ reasons' = Append(reasons, "stock_loss_exceeded")
            /\ adjusted_position' = 0
            /\ risk_level' = "high"
       ELSE UNCHANGED <<reasons, adjusted_position, risk_level>>
    /\ r_pc' = "rule7"
    /\ UNCHANGED <<config, config_arg, decision, portfolio, warnings, check_result, nonRiskVars>>

\* rule 7: the account drawdown
Rule7Drawdown ==
    /\ r_pc = "rule7"
    /\ IF portfolio.drawdown > config.max_drawdown
       THEN /\ reasons' = Append(reasons, "drawdown_exceeded")
            /\ risk_level' = "high"
            /\ adjusted_position' = 0
       ELSE UNCHANGED <<reasons, adjusted_position, risk_level>>
    /\ r_pc' = "final"
    /\ UNCHANGED <<config, config_arg, decision, portfolio, warnings, check_result, nonRiskVars>>

\* approved = len(reasons) == 0, and the final return
RunFinish ==
    /\ r_pc = "final"
    /\ RunReturn(RiskCheckResult(reasons = <<>>, risk_level, warnings,
                                 adjusted_position, reasons))
    /\ UNCHANGED <<config, config_arg, decision, portfolio, adjusted_position, risk_level,
                   warnings, reasons, nonRiskVars>>

\* the caller has taken the RiskCheckResult: the frame of run is gone, the
\* agent keeps its config
RunExit ==
    /\ r_pc = "returned"
    /\ r_pc' = "idle"
    /\ config_arg' = NoOverride
    /\ decision' = NoDecision
    /\ portfolio' = NoPortfolio
    /\ adjusted_position' = 0
    /\ risk_level' = "none"
    /\ warnings' = <<>>
    /\ reasons' = <<>>
    /\ check_result' = NoResult
    /\ UNCHANGED <<config, nonRiskVars>>

(***************************************************************************)
(* DecisionMaker._generate_decision and the composite score                *)
(* (src/src/decision/decision_maker.py, src/src/quant/factors.py).         *)
(* A composite score handed to _generate_decision is a decimal with one    *)
(* fractional digit, held in tenths; a confidence is held in hundredths.   *)
(* Factor values and weights are whole numbers, a sentiment score is held  *)
(* in tenths, and the score calculate_composite_score returns is an exact  *)
(* fraction <<numerator, denominator>> in lowest terms.                    *)
(***************************************************************************)

\* composite scores handed to _generate_decision lie in [-MaxScore, MaxScore]
MaxScore == 120

\* the composite_score argument, in tenths
Scores == (-10 * MaxScore)..(10 * MaxScore)

Min(a, b) == IF a < b THEN a ELSE b

Max(a, b) == IF a > b THEN a ELSE b

\* int(n / d) for d > 0: Python's int() drops the fractional part
Trunc(n, d) == IF n >= 0 THEN n \div d ELSE -((-n) \div d)

\* the branch _generate_decision takes for composite score s (tenths)
Tier(s) ==
    IF s > 500 THEN "strong_buy"
    ELSE IF s > 300 THEN "buy"
    ELSE IF s > -300 THEN "hold"
    ELSE IF s > -500 THEN "sell"
    ELSE "strong_sell"

\* the position of every branch without its min / max
PositionUncapped(tier, s) ==
    CASE tier = "strong_buy" -> Trunc(500 + s, 10)
      [] tier = "buy" -> Trunc(600 + s, 20)
      [] tier = "hold" -> Trunc(s + 300, 10)
      [] tier = "sell" -> 50 + Trunc(s, 20)
      [] tier = "strong_sell" -> 50 + Trunc(s, 10)

\* position of the branch: int(50 + s), int(30 + s / 2), int(s + 30),
\* 50 + int(s / 2), 50 + int(s), under the branch's min or max
Position(tier, s) ==
    CASE tier = "strong_buy" -> Min(100, Trunc(500 + s, 10))
      [] tier = "buy" -> Min(80, Trunc(600 + s, 20))
      [] tier = "hold" -> Min(30, Trunc(s + 300, 10))
      [] tier = "sell" -> Max(0, 50 + Trunc(s, 20))
      [] tier = "strong_sell" -> Max(0, 50 + Trunc(s, 10))

\* confidence of the branch, in hundredths: (s - 50) / 5 + 5, (s - 30) / 2 + 5,
\* 5, (-s - 30) / 2 + 5, (-s - 50) / 5 + 5, under min(10, .)
Confidence(tier, s) ==
    CASE tier = "strong_buy" -> Min(1000, 2 * (s - 500) + 500)
      [] tier = "buy" -> Min(1000, 5 * (s - 300) + 500)
      [] tier = "hold" -> 500
      [] tier = "sell" -> Min(1000, 5 * (-s - 300) + 500)
      [] tier = "strong_sell" -> Min(1000, 2 * (-s - 500) + 500)

\* DecisionResult(decision, position, confidence); the reason text and the
\* timestamp are left out
DecisionResult(tier, position, confidence) ==
    [decision |-> tier, position |-> position, confidence |-> confidence]

\* no DecisionResult yet
NoDecisionResult == DecisionResult("none", 0, 0)

\* DecisionMaker._generate_decision(indicators, factors, sentiment_score, composite_score)
GenerateDecision(s) ==
    DecisionResult(Tier(s), Position(Tier(s), s), Confidence(Tier(s), s))

\* the factor names calculate_composite_score tells apart, and "sentiment",
\* the name DecisionMaker adds
FactorNames ==
    {"rsi", "price_position", "momentum_5d", "momentum_10d", "main_flow_rate",
     "volume_ratio", "vol_change", "sentiment"}

\* the ends of the range each factor's normalisation assumes
FactorRange ==
    [rsi |-> <<0, 100>>, price_position |-> <<0, 100>>,
     momentum_5d |-> <<-20, 20>>, momentum_10d |-> <<-20, 20>>,
     main_flow_rate |-> <<-50, 50>>, volume_ratio |-> <<-50, 50>>,
     vol_change |-> <<-100, 100>>, sentiment |-> <<-100, 100>>]

\* dictionaries over the names: every name is missing or at one end of its range
DictsOver(names) ==
    { [n \in {m \in names : c[m] # 0} |-> FactorRange[n][c[n]]] :
        c \in [names -> 0..2] }

\* the factors argument of calculate_composite_score
FactorDicts == DictsOver(FactorNames)

\* a weight table handed in has at most MaxWeighted entries
MaxWeighted == 2

WeightValues == {1, 20}

WeightTables ==
    UNION { [S -> WeightValues] :
              S \in {T \in SUBSET FactorNames : Cardinality(T) <= MaxWeighted} }

\* the weights argument of calculate_composite_score: None or a table
NoneWeights == [is_none |-> TRUE, table |-> <<>>]

Given(table) == [is_none |-> FALSE, table |-> table]

WeightArgs == {NoneWeights} \cup {Given(t) : t \in WeightTables}

\* the table calculate_composite_score uses when weights is None
DefaultWeights ==
    [momentum_5d |-> 15, momentum_10d |-> 10, rsi |-> 15, main_flow_rate |-> 20,
     volume_ratio |-> 10, price_position |-> 15, vol_change |-> 15]

\* a factor's contribution without the division by its assumed range
NormalizedUnscaled(factor_name, value, weight) == value * weight * 100

\* calculate_composite_score: a factor's contribution `normalized`, in hundredths
Normalized(factor_name, value, weight) ==
    IF factor_name \in {"rsi"} THEN (value - 50) * weight * 2
    ELSE IF factor_name \in {"momentum_5d", "momentum_10d"} THEN value * weight * 5
    ELSE IF factor_name \in {"main_flow_rate", "volume_ratio"} THEN value * weight * 2
    ELSE IF factor_name \in {"price_position"} THEN (value - 50) * weight * 2
    ELSE IF factor_name \in {"vol_change"} THEN value * weight
    ELSE 0

RECURSIVE ScoreSum(_, _, _)
\* calculate_composite_score: `score` after the loop, in hundredths
ScoreSum(names, fs, ws) ==
    IF names = {} THEN 0
    ELSE LET n == CHOOSE x \in names : TRUE
         IN  Normalized(n, fs[n], ws[n]) + ScoreSum(names \ {n}, fs, ws)

RECURSIVE TotalWeight(_, _)
\* calculate_composite_score: `total_weight` after the loop
TotalWeight(names, ws) ==
    IF names = {} THEN 0
    ELSE LET n == CHOOSE x \in names : TRUE
         IN  ws[n] + TotalWeight(names \ {n}, ws)

\* FactorCompositor.calculate_composite_score(factors, weights)
CalculateCompositeScore(fs, wa) ==
    LET ws == IF wa.is_none THEN DefaultWeights ELSE wa.table
        used == {n \in DOMAIN ws : n \in DOMAIN fs}
        sum == ScoreSum(used, fs, ws)
        total_weight == TotalWeight(used, ws)
    IN  IF total_weight > 0 THEN Frac(sum, total_weight) ELSE Frac(sum, 100)

\* a < b for fractions with positive denominators
FracLess(a, b) == a[1] * b[2] < b[1] * a[2]

\* dict.get(key, default)
Get(d, key, default) == IF key \in DOMAIN d THEN d[key] ELSE default

\* sentiment scores handed to _calculate_composite_score, in tenths
Sentiments == {-10, -3, 0, 5, 10}

\* the indicators and factors arguments of _calculate_composite_score
IndicatorDicts == DictsOver({"rsi"})

FlowDicts == DictsOver({"momentum_5d", "main_flow_rate", "volume_ratio"})

\* _calculate_composite_score: factor_dict, with sentiment_score * 100
FactorDict(indicators, fs, sentiment) ==
    [rsi |-> Get(indicators, "rsi", 50),
     momentum_5d |-> Get(fs, "momentum_5d", 0),
     main_flow_rate |-> Get(fs, "main_flow_rate", 0),
     volume_ratio |-> Get(fs, "volume_ratio", 1),
     sentiment |-> sentiment * 10]

\* _calculate_composite_score: weights
DecisionMakerWeights ==
    [rsi |-> 15, momentum_5d |-> 15, main_flow_rate |-> 20, volume_ratio |-> 10,
     sentiment |-> 20]

\* nothing of the decision maker has been called
DecisionInit ==
    /\ composite_score = 0
    /\ decision_result = NoDecisionResult
    /\ s_pc = "idle"
    /\ factors = <<>>
    /\ weights = NoneWeights
    /\ sentiment_score = 0
    /\ score = <<0, 1>>

\* _generate_decision is applied to the composite score
GenerateDecisionCall ==
    /\ decision_result = NoDecisionResult
    /\ decision_result' = GenerateDecision(composite_score)
    /\ UNCHANGED <<composite_score, scoreVars, nonDecisionVars>>

\* FactorCompositor.calculate_composite_score is called
CompositeScoreCall ==
    /\ s_pc = "idle"
    /\ \E fs \in FactorDicts, wa \in WeightArgs :
          /\ factors' = fs
          /\ weights' = wa
          /\ score' = CalculateCompositeScore(fs, wa)
    /\ s_pc' = "compositor"
    /\ UNCHANGED <<sentiment_score, composite_score, decision_result, nonDecisionVars>>

\* DecisionMaker._calculate_composite_score is called
DecisionMakerScoreCall ==
    /\ s_pc = "idle"
    /\ \E indicators \in IndicatorDicts, fs \in FlowDicts, sentiment \in Sentiments :
          /\ sentiment_score' = sentiment
          /\ factors' = FactorDict(indicators, fs, sentiment)
          /\ weights' = Given(DecisionMakerWeights)
          /\ score' = CalculateCompositeScore(FactorDict(indicators, fs, sentiment),
                                              Given(DecisionMakerWeights))
    /\ s_pc' = "decision_maker"
    /\ UNCHANGED <<composite_score, decision_result, nonDecisionVars>>

\* the caller has taken the score
ScoreReturn ==
    /\ s_pc # "idle"
    /\ s_pc' = "idle"
    /\ factors' = <<>>
    /\ weights' = NoneWeights
    /\ sentiment_score' = 0
    /\ score' = <<0, 1>>
    /\ UNCHANGED <<composite_score, decision_result, nonDecisionVars>>

(***************************************************************************)
(* Python float arithmetic of run_with_decision.  A float is an IEEE 754   *)
(* binary64 number m * 2^e with a 53-bit significand m, 2^52 <= m < 2^53.  *)
(* A significand is held as <<hi, lo>> standing for hi * 2^28 + lo, and    *)
(* a / b is the quotient rounded to the nearest float, ties to even.       *)
(***************************************************************************)
Limb == 2^28

\* hi of 2^52, the smallest 53-bit significand
Top == 2^24

Wide(n) == <<n \div Limb, n % Limb>>

WideLess(a, b) == a[1] < b[1] \/ (a[1] = b[1] /\ a[2] < b[2])

\* a - b for a >= b
WideSub(a, b) ==
    IF a[2] >= b[2] THEN <<a[1] - b[1], a[2] - b[2]>>
    ELSE <<a[1] - b[1] - 1, a[2] + Limb - b[2]>>

\* 2 * a + bit
WideDouble(a, bit) ==
    LET lo == 2 * a[2] + bit IN <<2 * a[1] + lo \div Limb, lo % Limb>>

\* a \div 2
WideHalf(a) == <<a[1] \div 2, (a[1] % 2) * (Limb \div 2) + a[2] \div 2>>

\* a + 1
WideSucc(a) == IF a[2] + 1 = Limb THEN <<a[1] + 1, 0>> ELSE <<a[1], a[2] + 1>>

Float(m, e) == [m |-> m, e |-> e]

RECURSIVE Normalize(_, _)
\* the float of value m * 2^e for 0 < m < 2^53
Normalize(m, e) ==
    IF m[1] >= Top THEN Float(m, e) ELSE Normalize(WideDouble(m, 0), e - 1)

\* float(n) for a whole number 0 < n < 2^31
FromInt(n) == Normalize(Wide(n), 0)

RECURSIVE DivBits(_, _, _)
\* n more quotient bits of the long division by b; qr = <<quotient, remainder>>
DivBits(qr, b, n) ==
    IF n = 0 THEN qr
    ELSE LET r2 == WideDouble(qr[2], 0)
         IN  IF WideLess(r2, b)
             THEN DivBits(<<WideDouble(qr[1], 0), r2>>, b, n - 1)
             ELSE DivBits(<<WideDouble(qr[1], 1), WideSub(r2, b)>>, b, n - 1)

\* x / y for floats x, y > 0: floor(x.m * 2^54 / y.m) has 55 bits when
\* x.m >= y.m and 54 bits otherwise; it is cut to 53 bits, rounding to nearest,
\* ties to even
FloatDiv(x, y) ==
    LET ge == ~WideLess(x.m, y.m)
        qr == IF ge THEN DivBits(<<<<0, 1>>, WideSub(x.m, y.m)>>, y.m, 54)
              ELSE DivBits(<<<<0, 0>>, x.m>>, y.m, 54)
        q == qr[1]
        sticky == qr[2] # <<0, 0>>
        base == IF ge THEN WideHalf(WideHalf(q)) ELSE WideHalf(q)
        odd == base[2] % 2 = 1
        up == IF ge
              THEN q[2] % 4 = 3 \/ (q[2] % 4 = 2 /\ (sticky \/ odd))
              ELSE q[2] % 2 = 1 /\ (sticky \/ odd)
        m == IF up THEN WideSucc(base) ELSE base
        e == x.e - y.e - (IF ge THEN 52 ELSE 53)
    IN  IF m[1] >= 2 * Top THEN Float(WideHalf(m), e + 1) ELSE Float(m, e)

\* m \div 2^n for 0 <= n <= 53
ShiftRight(m, n) ==
    IF n >= 28 THEN <<0, m[1] \div 2^(n - 28)>>
    ELSE <<m[1] \div 2^n, (m[1] % 2^n) * 2^(28 - n) + m[2] \div 2^n>>

\* int(x) for a float 0 < x < 2^31
TruncToInt(x) ==
    IF -x.e > 53 THEN 0
    ELSE LET m == ShiftRight(x.m, -x.e) IN m[1] * Limb + m[2]

\* the float a decimal price of `cents` hundredths denotes
PriceFloat(cents) == FloatDiv(FromInt(cents), FromInt(100))

\* run_with_decision: amount = account_value * position / 100
\*                    quantity = int(amount / price / 100) * 100
LotQuantity(position, cents) ==
    LET amount == FloatDiv(FromInt(1000000 * position), FromInt(100))
    IN  TruncToInt(FloatDiv(FloatDiv(amount, PriceFloat(cents)), FromInt(100))) * 100

(***************************************************************************)
(* TradeExecutor (src/src/decision/trade_executor.py).                     *)
(* A price is a decimal with two fractional digits, held in cents.  The    *)
(* order quantity is computed in floats as the source computes it, since   *)
(* int() makes the rounding of the two divisions visible.  The filled      *)
(* price is held as an exact decimal in thousandths of a cent; the fields  *)
(* stock_name and amount (price * quantity) of an order are left out.      *)
(* An order_id is the pair <<second of the clock, random number>> that the *)
(* source prints into "ORD%Y%m%d%H%M%S" followed by the four digits.       *)
(***************************************************************************)

\* at most MaxCalls calls of run and run_with_decision are made on one executor
MaxCalls == 2

\* the clock shows the seconds 0..MaxNow
MaxNow == 1

\* random.randint(1000, 9999): the two ends
RandomInts == {1000, 9999}

\* the price argument, in cents: 1.10 and 150.00
ExecPrices == {110, 15000}

\* the quantity argument of a direct call of run
ExecQuantities == {100}

\* risk_result['adjusted_position'] of the approved results handed in directly
AdjustedPositions == {1, 11, 40}

\* the position percentages run_with_decision may be handed
PositionsTraded == 1..100

\* the quantity run_with_decision computes for every position and price
LotQuantities ==
    [position \in PositionsTraded, cents \in ExecPrices |-> LotQuantity(position, cents)]

\* the risk_result dictionaries handed in directly: approved ones, with and
\* without adjusted_position, and rejected ones with approved False or
\* missing and reasons given or missing
RiskResults ==
    {[approved |-> TRUE, adjusted_position |-> a, reasons |-> <<>>] :
        a \in AdjustedPositions \cup {0}}
    \cup {[approved |-> TRUE, reasons |-> <<>>],
          [approved |-> FALSE, adjusted_position |-> 0,
           reasons |-> <<"total_position_full", "drawdown_exceeded">>],
          [adjusted_position |-> 11, reasons |-> <<"stock_loss_exceeded">>],
          [approved |-> FALSE, adjusted_position |-> 11]}

\* the decision dictionaries: run_with_decision reads decision.get('decision')
ExecDecisions == {[decision |-> t] : t \in {"buy", "sell", "strong_sell"}}

ApprovedByDefault(risk_result) == Get(risk_result, "approved", TRUE)

\* risk_result.get('approved', False)
Approved(risk_result) == Get(risk_result, "approved", FALSE)

\* AgentResponse(success, data, error)
AgentResponse(success, data, error) == [success |-> success, data |-> data, error |-> error]

\* data=None and error=None
NoOrder == [order_id |-> <<>>]
NoError == [text |-> "", reasons |-> <<>>]

\* f"Risk control rejected: {reason}" with reason = "; ".join(reasons)
RiskRejectedError(why) == [text |-> "Risk control rejected", reasons |-> why]

\* an error text without parts
PlainError(text) == [text |-> text, reasons |-> <<>>]

\* _generate_order_id at second `second` with random number `rnd`
GenerateOrderId(second, rnd) == <<second, rnd>>

\* _simulate_fill: price * (1 + 0.001) for a buy, price * (1 - 0.001) otherwise,
\* in thousandths of a cent
FilledPrice(action, cents) == IF action = "buy" THEN cents * 1001 ELSE cents * 999

\* the TradeOrder run creates, after _simulate_fill
FilledOrder(order_id, symbol, action, cents, quantity, second) ==
    [order_id |-> order_id, symbol |-> symbol, action |-> action,
     price |-> FilledPrice(action, cents), quantity |-> quantity,
     order_type |-> "market", status |-> "filled", created_at |-> second]

\* _log_trade(order, "成交"): the TradeLog appended to self.logs
TradeLog(order, count, second) ==
    [log_id |-> <<second, count>>, order_id |-> order.order_id,
     symbol |-> order.symbol, action |-> order.action, price |-> order.price,
     quantity |-> order.quantity, status |-> order.status, reason |-> "filled",
     timestamp |-> second]

\* the arguments of a call
Request(op, symbol, cents, d, risk_result, action, quantity) ==
    [op |-> op, symbol |-> symbol, price |-> cents, decision |-> d,
     risk_result |-> risk_result, action |-> action, quantity |-> quantity]

NoRequest == Request("none", "", 0, <<>>, <<>>, "", 0)
NoResponse == AgentResponse(FALSE, NoOrder, PlainError("none"))

\* TradeExecutor.get_order(order_id): the order, or NoOrder for None
GetOrder(order_id) == IF order_id \in DOMAIN orders THEN orders[order_id] ELSE NoOrder

\* TradeExecutor.get_orders(status) with a status
GetOrders(status) == {orders[id] : id \in {i \in DOMAIN orders : orders[i].status = status}}

\* TradeExecutor.get_orders()
GetAllOrders == {orders[id] : id \in DOMAIN orders}

\* TradeExecutor.__init__
ExecInit ==
    /\ orders = <<>>
    /\ logs = <<>>
    /\ now = 0
    /\ calls = 0
    /\ request = NoRequest
    /\ response = NoResponse

\* TradeExecutor.run(symbol, stock_name, action, price, quantity): the order is
\* created, filled and logged; self.orders is not written
Run(symbol, action, cents, quantity, rnd) ==
    LET order == FilledOrder(GenerateOrderId(now, rnd), symbol, action, cents,
                             quantity, now)
    IN  /\ logs' = Append(logs, TradeLog(order, Len(logs), now))
        /\ response' = AgentResponse(TRUE, order, NoError)
        /\ calls' = calls + 1
        /\ UNCHANGED <<orders, now>>

\* run returns without an order
Refuse(error) ==
    /\ response' = AgentResponse(FALSE, NoOrder, error)
    /\ calls' = calls + 1
    /\ UNCHANGED <<orders, logs, now>>

\* TradeExecutor.run_with_decision(symbol, stock_name, price, decision, risk_result)
RunWithDecision(symbol, cents, d, risk_result, rnd) ==
    LET position == Get(risk_result, "adjusted_position", 0)
        quantity == LotQuantities[position, cents]
        action == IF Get(d, "decision", "none") \in {"sell", "strong_sell"}
                  THEN "sell" ELSE "buy"
    IN  IF ~Approved(risk_result)
        THEN /\ Refuse(RiskRejectedError(Get(risk_result, "reasons", <<>>)))
             /\ request' = Request("run_with_decision", symbol, cents, d, risk_result, "", 0)
        ELSE IF position = 0
        THEN /\ Refuse(PlainError("Position is 0 after risk control"))
             /\ request' = Request("run_with_decision", symbol, cents, d, risk_result, "", 0)
        ELSE IF quantity < 100
        THEN /\ Refuse(PlainError("Quantity too small"))
             /\ request' = Request("run_with_decision", symbol, cents, d, risk_result, "",
                                   quantity)
        ELSE /\ Run(symbol, action, cents, quantity, rnd)
             /\ request' = Request("run_with_decision", symbol, cents, d, risk_result,
                                   action, quantity)

\* a second passes
Tick ==
    /\ now < MaxNow
    /\ now' = now + 1
    /\ UNCHANGED <<orders, logs, calls, request, response, nonExecVars>>

\* run is called directly
RunCall ==
    /\ calls < MaxCalls
    /\ \E action \in {"buy", "sell"}, cents \in ExecPrices, quantity \in ExecQuantities,
          rnd \in RandomInts :
          /\ Run("A", action, cents, quantity, rnd)
          /\ request' = Request("run", "A", cents, <<>>, <<>>, action, quantity)
    /\ UNCHANGED nonExecVars

\* run_with_decision is called with a risk result of RiskResults
RunWithDecisionCall ==
    /\ calls < MaxCalls
    /\ \E cents \in ExecPrices, d \in ExecDecisions, risk_result \in RiskResults,
          rnd \in RandomInts :
          RunWithDecision("A", cents, d, risk_result, rnd)
    /\ UNCHANGED nonExecVars

\* SimpleRiskChecker.check_decision(decision) with config None
CheckDecision(d) ==
    IF IsSellDecision(d)
    THEN RiskCheckResult(FALSE, "high", <<>>, 0, <<"sell_signal">>)
    ELSE LET low == d.confidence < 3
             p1 == IF low THEN Halved(d.position) ELSE d.position
             w1 == IF low THEN <<"low_confidence">> ELSE <<>>
             over == p1 > 30
         IN  RiskCheckResult(TRUE, "low",
                             IF over THEN Append(w1, "position_over_limit") ELSE w1,
                             IF over THEN 30 ELSE p1, <<>>)

\* run_with_decision is called with the decision RiskControlAgent.run has just
\* judged and the result it returned
RunWithGateResult ==
    /\ r_pc = "returned"
    /\ request = NoRequest
    /\ \E cents \in ExecPrices, rnd \in RandomInts :
          RunWithDecision(decision.symbol, cents, decision, check_result, rnd)
    /\ UNCHANGED nonExecVars

\* run_with_decision is called with a decision and the result
\* SimpleRiskChecker.check_decision returns for it
RunWithSimpleCheck ==
    /\ r_pc = "idle"
    /\ request = NoRequest
    /\ \E d \in Decisions, cents \in ExecPrices, rnd \in RandomInts :
          RunWithDecision(d.symbol, cents, d, CheckDecision(d), rnd)
    /\ UNCHANGED nonExecVars

\* the next decision is put to the agent as long as the executor has not
\* been called
GateEnter == request = NoRequest /\ RunEnter

GateExit == request = NoRequest /\ RunExit

(***************************************************************************)
(* Technical indicators (src/src/quant/indicators.py).                     *)
(* A value of a pandas float series is NaN, an infinity or a number; a     *)
(* number is kept as a sign and an exact fraction n/d, so that -0.0, x/0   *)
(* and 0/0 come out as IEEE 754 arithmetic gives them.  The rounding of    *)
(* the finite results is left out.  The moving averages, the Bollinger     *)
(* bands and the EMA values of the result are left out as well.            *)
(***************************************************************************)

\* at most MaxBars bars in a data frame
MaxBars == 3

\* the default periods of the source
MacdFast == 12
MacdSlow == 26
MacdSignal == 9
RsiPeriod == 14
KdjPeriod == 9
KdjCom == 2

NaN == [kind |-> "nan", neg |-> FALSE, n |-> 0, d |-> 1]

Inf(neg) == [kind |-> "inf", neg |-> neg, n |-> 1, d |-> 0]

\* the number (-1)^neg * n/d in lowest terms; n = 0 with neg is -0.0
Num(neg, n, d) ==
    LET g == GCD(n, d)
    IN  [kind |-> "num", neg |-> neg, n |-> n \div g, d |-> d \div g]

FromInteger(i) == Num(i < 0, Abs(i), 1)

IsNaN(x) == x.kind = "nan"

IsZero(x) == x.kind = "num" /\ x.n = 0

\* -x
Neg(x) == IF IsNaN(x) THEN NaN ELSE [x EXCEPT !.neg = ~x.neg]

\* x + y
Add(x, y) ==
    IF IsNaN(x) \/ IsNaN(y) THEN NaN
    ELSE IF x.kind = "inf" /\ y.kind = "inf"
    THEN IF x.neg = y.neg THEN x ELSE NaN
    ELSE IF x.kind = "inf" THEN x
    ELSE IF y.kind = "inf" THEN y
    ELSE LET g == GCD(x.d, y.d)
             s == (IF x.neg THEN -1 ELSE 1) * x.n * (y.d \div g)
                  + (IF y.neg THEN -1 ELSE 1) * y.n * (x.d \div g)
         IN  IF s = 0 THEN Num(x.neg /\ y.neg, 0, 1)
             ELSE Num(s < 0, Abs(s), (x.d \div g) * y.d)

\* x - y
Sub(x, y) == Add(x, Neg(y))

\* x * y
Mul(x, y) ==
    IF IsNaN(x) \/ IsNaN(y) THEN NaN
    ELSE IF (x.kind = "inf" /\ IsZero(y)) \/ (IsZero(x) /\ y.kind = "inf") THEN NaN
    ELSE IF x.kind = "inf" \/ y.kind = "inf" THEN Inf(x.neg # y.neg)
    ELSE LET g1 == GCD(x.n, y.d)
             g2 == GCD(y.n, x.d)
         IN  Num(x.neg # y.neg, (x.n \div g1) * (y.n \div g2),
                 (x.d \div g2) * (y.d \div g1))

\* x / y
Div(x, y) ==
    IF IsNaN(x) \/ IsNaN(y) THEN NaN
    ELSE IF x.kind = "inf" THEN (IF y.kind = "inf" THEN NaN ELSE Inf(x.neg # y.neg))
    ELSE IF y.kind = "inf" THEN Num(x.neg # y.neg, 0, 1)
    ELSE IF IsZero(y) THEN (IF IsZero(x) THEN NaN ELSE Inf(x.neg # y.neg))
    ELSE Mul(x, [y EXCEPT !.n = y.d, !.d = y.n])

\* x < y for two values; False when one is NaN
Less(x, y) ==
    LET d == Sub(x, y)
    IN  ~IsNaN(d) /\ ~IsZero(d) /\ d.neg

\* x == y as floats compare: -0.0 == 0.0, NaN equals nothing
Equal(x, y) == LET d == Sub(x, y) IN IsZero(d)

\* Series.diff()
Diff(s) == [t \in 1..Len(s) |-> IF t = 1 THEN NaN ELSE Sub(s[t], s[t - 1])]

\* gain = delta.where(delta > 0, 0)
Gain(delta) ==
    [t \in 1..Len(delta) |->
        IF Less(FromInteger(0), delta[t]) THEN delta[t] ELSE FromInteger(0)]

\* loss = -delta.where(delta < 0, 0)
Loss(delta) ==
    [t \in 1..Len(delta) |->
        Neg(IF Less(delta[t], FromInteger(0)) THEN delta[t] ELSE FromInteger(0))]

\* Series.ewm(alpha, adjust=False).mean() at bar t: leading NaN stay NaN, the
\* first number starts the average, a later NaN repeats the average
RECURSIVE EwmAt(_, _, _)
EwmAt(s, alpha, t) ==
    IF t = 1 THEN s[1]
    ELSE LET old == EwmAt(s, alpha, t - 1)
         IN  IF IsNaN(old) THEN s[t]
             ELSE IF IsNaN(s[t]) THEN old
             ELSE Add(Mul(Sub(FromInteger(1), alpha), old), Mul(alpha, s[t]))

Ewm(s, alpha) == [t \in 1..Len(s) |-> EwmAt(s, alpha, t)]

\* ewm(span=span): alpha = 2 / (span + 1)
SpanAlpha(span) == Num(FALSE, 2, span + 1)

\* ewm(com=com): alpha = 1 / (1 + com)
ComAlpha(com) == Num(FALSE, 1, 1 + com)

\* the smallest / largest of the values s[from..to]
RECURSIVE Lowest(_, _, _)
Lowest(s, from, to) ==
    IF from = to THEN s[to]
    ELSE LET rest == Lowest(s, from + 1, to)
         IN  IF Less(s[from], rest) THEN s[from] ELSE rest

RECURSIVE Highest(_, _, _)
Highest(s, from, to) ==
    IF from = to THEN s[to]
    ELSE LET rest == Highest(s, from + 1, to)
         IN  IF Less(rest, s[from]) THEN s[from] ELSE rest

\* Series.rolling(window=period).min(): NaN until the window is full
RollingMin(s, period) ==
    [t \in 1..Len(s) |-> IF t < period THEN NaN ELSE Lowest(s, t - period + 1, t)]

\* Series.rolling(window=period).max()
RollingMax(s, period) ==
    [t \in 1..Len(s) |-> IF t < period THEN NaN ELSE Highest(s, t - period + 1, t)]

\* the column of a data frame as a float series
Column(frame, name) == [t \in 1..Len(frame) |-> FromInteger(frame[t][name])]

\* IndicatorCalculator.calculate_macd(prices)['histogram']
MacdHistogram(prices) ==
    LET ema_fast == Ewm(prices, SpanAlpha(MacdFast))
        ema_slow == Ewm(prices, SpanAlpha(MacdSlow))
        macd_line == [t \in 1..Len(prices) |-> Sub(ema_fast[t], ema_slow[t])]
        signal_line == Ewm(macd_line, SpanAlpha(MacdSignal))
    IN  [t \in 1..Len(prices) |-> Sub(macd_line[t], signal_line[t])]

\* IndicatorCalculator.calculate_rsi(prices)
CalculateRsi(prices) ==
    LET delta == Diff(prices)
        avg_gain == Ewm(Gain(delta), SpanAlpha(RsiPeriod))
        avg_loss == Ewm(Loss(delta), SpanAlpha(RsiPeriod))
    IN  [t \in 1..Len(prices) |->
            LET rs == Div(avg_gain[t], avg_loss[t])
            IN  Sub(FromInteger(100), Div(FromInteger(100), Add(FromInteger(1), rs)))]

\* IndicatorCalculator.calculate_kdj(high, low, close)
CalculateKdj(high, low, close) ==
    LET lowest_low == RollingMin(low, KdjPeriod)
        highest_high == RollingMax(high, KdjPeriod)
        rsv == [t \in 1..Len(close) |->
                   Mul(Div(Sub(close[t], lowest_low[t]),
                           Sub(highest_high[t], lowest_low[t])), FromInteger(100))]
        k == Ewm(rsv, ComAlpha(KdjCom))
        d == Ewm(k, ComAlpha(KdjCom))
        j == [t \in 1..Len(close) |-> Sub(Mul(FromInteger(3), k[t]), Mul(FromInteger(2), d[t]))]
    IN  [k |-> k, d |-> d, j |-> j]

\* no call of calculate_all_indicators has returned
NoIndicators == [raised |-> "none"]

\* calculate_all_indicators(df): the fields macd_histogram, rsi, k, d and j of
\* the result; on an empty frame calculate_ema_12_26 raises at .iloc[-1]
CalculateAllIndicators(frame) ==
    IF Len(frame) = 0 THEN [raised |-> "IndexError"]
    ELSE LET last_bar == Len(frame)
             close == Column(frame, "close")
             kdj == CalculateKdj(Column(frame, "high"), Column(frame, "low"), close)
         IN  [raised |-> "",
              macd_histogram |-> MacdHistogram(close)[last_bar],
              rsi |-> CalculateRsi(close)[last_bar],
              k |-> kdj.k[last_bar],
              d |-> kdj.d[last_bar],
              j |-> kdj.j[last_bar]]

\* the bars of the data frames: a flat bar and bars around three closes
Bars ==
    {[high |-> 10, low |-> 10, close |-> 10],
     [high |-> 11, low |-> 9, close |-> 10],
     [high |-> 12, low |-> 10, close |-> 11],
     [high |-> 10, low |-> 8, close |-> 9]}

\* the data frames of up to MaxBars bars
Frames == UNION {[1..n -> Bars] : n \in 0..MaxBars}

\* no data frame has been handed to calculate_all_indicators
IndicatorsInit ==
    /\ df = <<>>
    /\ all_indicators = NoIndicators

\* calculate_all_indicators(df) is called
CalculateAllIndicatorsCall ==
    /\ all_indicators = NoIndicators
    /\ all_indicators' = CalculateAllIndicators(df)
    /\ UNCHANGED <<df, nonIndicatorVars>>

Init ==
    /\ LedgerInit
    /\ threads = NoThreads
    /\ RiskInit
    /\ DecisionInit
    /\ ExecInit
    /\ IndicatorsInit

InitRisk ==
    /\ initial_capital = 0
    /\ cash = 0
    /\ positions = <<>>
    /\ trade_history = <<>>
    /\ last = NoCall
    /\ threads = NoThreads
    /\ RiskInit
    /\ DecisionInit
    /\ ExecInit
    /\ IndicatorsInit

NextRisk ==
    \/ RunEnter
    \/ Rule1Decision
    \/ Rule2Confidence
    \/ Rule3PositionCount
    \/ Rule4TotalPosition
    \/ Rule5SinglePosition
    \/ Rule6StockLoss
    \/ Rule7Drawdown
    \/ RunFinish
    \/ RunExit

\* calls of RiskControlAgent.run on one agent, one after the other
SpecRisk == InitRisk /\ [][NextRisk]_vars

InitDecision ==
    /\ initial_capital = 0
    /\ cash = 0
    /\ positions = <<>>
    /\ trade_history = <<>>
    /\ last = NoCall
    /\ threads = NoThreads
    /\ RiskInit
    /\ composite_score \in Scores
    /\ decision_result = NoDecisionResult
    /\ s_pc = "idle"
    /\ factors = <<>>
    /\ weights = NoneWeights
    /\ sentiment_score = 0
    /\ score = <<0, 1>>
    /\ ExecInit
    /\ IndicatorsInit

NextDecision == GenerateDecisionCall

\* _generate_decision applied once to every composite score of Scores
SpecDecision == InitDecision /\ [][NextDecision]_vars

NextScore ==
    \/ CompositeScoreCall
    \/ DecisionMakerScoreCall
    \/ ScoreReturn

\* calls of the two composite score functions, one after the other
SpecScore == InitRisk /\ [][NextScore]_vars

NextExec ==
    \/ Tick
    \/ RunCall
    \/ RunWithDecisionCall

\* calls of run and run_with_decision on one TradeExecutor while the clock runs
SpecExec == InitRisk /\ [][NextExec]_vars

NextPipeline ==
    \/ GateEnter
    \/ Rule1Decision
    \/ Rule2Confidence
    \/ Rule3PositionCount
    \/ Rule4TotalPosition
    \/ Rule5SinglePosition
    \/ Rule6StockLoss
    \/ Rule7Drawdown
    \/ RunFinish
    \/ GateExit
    \/ RunWithGateResult
    \/ RunWithSimpleCheck

\* decisions pass a risk gate; the first result handed on reaches run_with_decision
SpecPipeline == InitRisk /\ [][NextPipeline]_vars

InitIndicators ==
    /\ initial_capital = 0
    /\ cash = 0
    /\ positions = <<>>
    /\ trade_history = <<>>
    /\ last = NoCall
    /\ threads = NoThreads
    /\ RiskInit
    /\ DecisionInit
    /\ ExecInit
    /\ df \in Frames
    /\ all_indicators = NoIndicators

NextIndicators == CalculateAllIndicatorsCall

\* calculate_all_indicators is applied to a data frame of up to MaxBars bars
SpecIndicators == InitIndicators /\ [][NextIndicators]_vars

Buy ==
    /\ Len(trade_history) < MaxTrades
    /\ \E s \in Symbols, p \in Prices, q \in Quantities : BuyCall(s, p, q)
    /\ UNCHANGED <<threads, nonLedgerVars>>

Sell ==
    /\ Len(trade_history) < MaxTrades
    /\ \E s \in Symbols, p \in Prices, q \in Quantities : SellCall(s, p, q)
    /\ UNCHANGED <<threads, nonLedgerVars>>

Next == Buy \/ Sell

\* sequential calls with positive prices and positive quantities
Spec == Init /\ [][Next]_vars

BuyNonNeg ==
    /\ Len(trade_history) < MaxTrades
    /\ \E s \in Symbols, p \in Prices, q \in QuantitiesNonNeg : BuyCall(s, p, q)
    /\ UNCHANGED <<threads, nonLedgerVars>>

SellNonNeg ==
    /\ Len(trade_history) < MaxTrades
    /\ \E s \in Symbols, p \in Prices, q \in QuantitiesNonNeg : SellCall(s, p, q)
    /\ UNCHANGED <<threads, nonLedgerVars>>

NextNonNeg == BuyNonNeg \/ SellNonNeg

\* sequential calls with positive prices and quantities >= 0
SpecNonNeg == Init /\ [][NextNonNeg]_vars

\* an exception that buy raised is not caught: the calling sequence ends there
BuySigned ==
    /\ Len(trade_history) < MaxTrades
    /\ last.result # "ZeroDivisionError"
    /\ \E s \in Symbols, p \in Prices, q \in QuantitiesSigned : BuyCall(s, p, q)
    /\ UNCHANGED <<threads, nonLedgerVars>>

SellSigned ==
    /\ Len(trade_history) < MaxTrades
    /\ last.result # "ZeroDivisionError"
    /\ \E s \in Symbols, p \in Prices, q \in QuantitiesSigned : SellCall(s, p, q)
    /\ UNCHANGED <<threads, nonLedgerVars>>

NextSigned == BuySigned \/ SellSigned

\* sequential calls with positive prices and quantities of either sign
SpecSigned == Init /\ [][NextSigned]_vars

(***************************************************************************)
(* MockTradeExecutor called from concurrent threads.  The class holds no   *)
(* lock, so the statements of two calls interleave.  One step is one       *)
(* statement of buy/sell; `self.cash -= cost` and `self.cash += revenue`   *)
(* are a load followed by a store.                                         *)
(***************************************************************************)
Goto(t, pc) == threads' = [threads EXCEPT ![t].pc = pc]
Return(t, result) == threads' = [threads EXCEPT ![t].pc = "done", ![t].result = result]

\* a thread enters buy(symbol, price, quantity): cost = price * quantity * 1.0003
ConcBuyEnter(t) ==
    /\ threads[t].pc \in {"idle", "done"}
    /\ Len(trade_history) < MaxConcTrades
    /\ \E s \in Symbols, p \in Prices, q \in Quantities :
          threads' = [threads EXCEPT ![t] =
              [pc |-> "buy_check", op |-> "buy", symbol |-> s, price |-> p,
               quantity |-> q, amount |-> BuyCost(p, q), loaded |-> 0,
               result |-> "none"]]
    /\ UNCHANGED <<ledgerVars, nonLedgerVars>>

\* if cost > self.cash: return False
ConcBuyCheck(t) ==
    /\ threads[t].pc = "buy_check"
    /\ IF BuyRejected(threads[t].amount, cash)
       THEN Return(t, "False")
       ELSE Goto(t, "buy_load")
    /\ UNCHANGED <<ledgerVars, nonLedgerVars>>

\* self.cash -= cost: load self.cash
ConcBuyLoad(t) ==
    /\ threads[t].pc = "buy_load"
    /\ threads' = [threads EXCEPT ![t].pc = "buy_store", ![t].loaded = cash]
    /\ UNCHANGED <<ledgerVars, nonLedgerVars>>

\* self.cash -= cost: store the difference
ConcBuyStore(t) ==
    /\ threads[t].pc = "buy_store"
    /\ cash' = threads[t].loaded - threads[t].amount
    /\ Goto(t, "buy_position")
    /\ UNCHANGED <<initial_capital, positions, trade_history, last, nonLedgerVars>>

\* the position update of buy; new_qty = 0 raises ZeroDivisionError
ConcBuyPosition(t) ==
    LET f == threads[t] IN
    /\ f.pc = "buy_position"
    /\ IF f.symbol \in DOMAIN positions /\ positions[f.symbol].quantity + f.quantity = 0
       THEN /\ Return(t, "ZeroDivisionError")
            /\ UNCHANGED positions
       ELSE /\ positions' = PositionsAfterBuy(positions, f.symbol, f.price, f.quantity)
            /\ Goto(t, "buy_record")
    /\ UNCHANGED <<initial_capital, cash, trade_history, last, nonLedgerVars>>

\* self._record_trade(symbol, 'buy', price, quantity, cost); return True
ConcBuyRecord(t) ==
    LET f == threads[t] IN
    /\ f.pc = "buy_record"
    /\ trade_history' = RecordTrade(trade_history, f.symbol, "buy", f.price, f.quantity, f.amount)
    /\ Return(t, "True")
    /\ UNCHANGED <<initial_capital, cash, positions, last, nonLedgerVars>>

\* a thread enters sell(symbol, price, quantity)
ConcSellEnter(t) ==
    /\ threads[t].pc \in {"idle", "done"}
    /\ Len(trade_history) < MaxConcTrades
    /\ \E s \in Symbols, p \in Prices, q \in Quantities :
          threads' = [threads EXCEPT ![t] =
              [pc |-> "sell_check", op |-> "sell", symbol |-> s, price |-> p,
               quantity |-> q, amount |-> SellRevenue(p, q), loaded |-> 0,
               result |-> "none"]]
    /\ UNCHANGED <<ledgerVars, nonLedgerVars>>

\* if symbol not in self.positions: return False
ConcSellCheck(t) ==
    /\ threads[t].pc = "sell_check"
    /\ IF threads[t].symbol \notin DOMAIN positions
       THEN Return(t, "False")
       ELSE Goto(t, "sell_check_quantity")
    /\ UNCHANGED <<ledgerVars, nonLedgerVars>>

\* if self.positions[symbol]['quantity'] < quantity: return False
ConcSellCheckQuantity(t) ==
    LET f == threads[t] IN
    /\ f.pc = "sell_check_quantity"
    /\ IF f.symbol \notin DOMAIN positions THEN Return(t, "KeyError")
       ELSE IF positions[f.symbol].quantity < f.quantity THEN Return(t, "False")
       ELSE Goto(t, "sell_load")
    /\ UNCHANGED <<ledgerVars, nonLedgerVars>>

\* self.cash += revenue: load self.cash
ConcSellLoad(t) ==
    /\ threads[t].pc = "sell_load"
    /\ threads' = [threads EXCEPT ![t].pc = "sell_store", ![t].loaded = cash]
    /\ UNCHANGED <<ledgerVars, nonLedgerVars>>

\* self.cash += revenue: store the sum
ConcSellStore(t) ==
    /\ threads[t].pc = "sell_store"
    /\ cash' = threads[t].loaded + threads[t].amount
    /\ Goto(t, "sell_decrement")
    /\ UNCHANGED <<initial_capital, positions, trade_history, last, nonLedgerVars>>

\* self.positions[symbol]['quantity'] -= quantity
ConcSellDecrement(t) ==
    LET f == threads[t] IN
    /\ f.pc = "sell_decrement"
    /\ IF f.symbol \notin DOMAIN positions
       THEN /\ Return(t, "KeyError")
            /\ UNCHANGED positions
       ELSE /\ positions' = [positions EXCEPT ![f.symbol].quantity = @ - f.quantity]
            /\ Goto(t, "sell_delete")
    /\ UNCHANGED <<initial_capital, cash, trade_history, last, nonLedgerVars>>

\* if self.positions[symbol]['quantity'] == 0: del self.positions[symbol]
ConcSellDelete(t) ==
    LET f == threads[t] IN
    /\ f.pc = "sell_delete"
    /\ IF f.symbol \notin DOMAIN positions
       THEN /\ Return(t, "KeyError")
            /\ UNCHANGED positions
       ELSE /\ positions' = IF positions[f.symbol].quantity = 0
                            THEN [s \in DOMAIN positions \ {f.symbol} |-> positions[s]]
                            ELSE positions
            /\ Goto(t, "sell_record")
    /\ UNCHANGED <<initial_capital, cash, trade_history, last, nonLedgerVars>>

\* self._record_trade(symbol, 'sell', price, quantity, revenue); return True
ConcSellRecord(t) ==
    LET f == threads[t] IN
    /\ f.pc = "sell_record"
    /\ trade_history' = RecordTrade(trade_history, f.symbol, "sell", f.price, f.quantity, f.amount)
    /\ Return(t, "True")
    /\ UNCHANGED <<initial_capital, cash, positions, last, nonLedgerVars>>

NextConc ==
    \E t \in Threads :
        \/ ConcBuyEnter(t)
        \/ ConcBuyCheck(t)
        \/ ConcBuyLoad(t)
        \/ ConcBuyStore(t)
        \/ ConcBuyPosition(t)
        \/ ConcBuyRecord(t)
        \/ ConcSellEnter(t)
        \/ ConcSellCheck(t)
        \/ ConcSellCheckQuantity(t)
        \/ ConcSellLoad(t)
        \/ ConcSellStore(t)
        \/ ConcSellDecrement(t)
        \/ ConcSellDelete(t)
        \/ ConcSellRecord(t)

\* buy and sell calls from the threads of Threads, interleaved
SpecConc == Init /\ [][NextConc]_vars

(***************************************************************************)
(* Properties of the sequential ledger                                     *)
(***************************************************************************)
HeldQuantity(pos, symbol) == IF symbol \in DOMAIN pos THEN pos[symbol].quantity ELSE 0

\* C1: with positive prices and positive integer quantities, cash is >= 0 in
\* every state reachable by buy and sell calls, successful or rejected.
C1_CashNonNegative == cash >= 0

\* a buy is rejected for lack of cash after a buy and a sell have been filled
C1_Witness ==
    /\ last.op = "buy" /\ last.result = "False"
    /\ cash < (last.price * last.quantity * 10003) \div 100
    /\ \E i \in 1..Len(trade_history) : trade_history[i].action = "buy"
    /\ \E i \in 1..Len(trade_history) : trade_history[i].action = "sell"

\* C2: with quantities >= 0, no entry of positions has quantity <= 0.
C2_NoNonPositiveQuantity ==
    \A s \in DOMAIN positions : positions[s].quantity > 0

\* C3: buy(symbol, p, q) with p > 0, q > 0 and cost = p*q*1.0003: if cost > cash
\* it returns False and leaves cash, positions and trade_history unchanged;
\* otherwise it returns True and cash decreases by exactly cost.  From cash
\* 1,000,000 a first buy of 100 shares at 100 costs 10,003 and leaves cash
\* 989,997 and the position {quantity 100, avg_cost 100}.
C3_BuyContract ==
    [][last'.op = "buy" =>
        LET cost == (last'.price * last'.quantity * 10003) \div 100 IN
        /\ IF cost > cash
           THEN /\ last'.result = "False"
                /\ UNCHANGED <<cash, positions, trade_history>>
           ELSE /\ last'.result = "True"
                /\ cash' = cash - cost
        /\ ( /\ cash = 100000000
             /\ last'.price = 100 /\ last'.quantity = 100
             /\ last'.symbol \notin DOMAIN positions )
           => /\ cash' = 98999700
              /\ trade_history'[Len(trade_history')].amount = 1000300
              /\ positions'[last'.symbol] = [quantity |-> 100, avg_cost |-> <<100, 1>>]
    ]_vars

\* the scenario happened: 100 shares bought at 100 out of 1,000,000
C3_Witness ==
    /\ last = Call("buy", "A", 100, 100, "True")
    /\ initial_capital = 100000000
    /\ cash = 98999700
    /\ positions = [s \in {"A"} |-> [quantity |-> 100, avg_cost |-> <<100, 1>>]]

\* C4: sell(symbol, p, q) with held quantity h (0 when the symbol has no
\* position): if q > h it returns False and leaves cash, positions and
\* trade_history unchanged; otherwise cash increases by exactly p*q*0.9997, the
\* held quantity becomes h - q, and the entry is deleted exactly when h - q = 0.
C4_SellContract ==
    [][last'.op = "sell" =>
        LET s == last'.symbol
            q == last'.quantity
            h == HeldQuantity(positions, s)
        IN  IF q > h
            THEN /\ last'.result = "False"
                 /\ UNCHANGED <<cash, positions, trade_history>>
            ELSE /\ cash' = cash + (last'.price * q * 9997) \div 100
                 /\ HeldQuantity(positions', s) = h - q
                 /\ (s \notin DOMAIN positions') <=> (h - q = 0)
    ]_vars

\* a partial sell kept the entry, and an earlier sell of a whole holding
\* deleted one
C4_Witness ==
    /\ last.op = "sell" /\ last.result = "True"
    /\ last.symbol \in DOMAIN positions
    /\ positions[last.symbol].quantity > 0
    /\ \E i \in 1..Len(trade_history) :
          /\ trade_history[i].action = "sell"
          /\ trade_history[i].symbol \notin DOMAIN positions

\* C5: the first successful buy of q at p sets avg_cost = p; a successful buy
\* of q at p onto a position (q0, c0) sets avg_cost = (c0*q0 + p*q)/(q0+q); a
\* successful sell that leaves a positive quantity leaves avg_cost unchanged.
C5_AvgCost ==
    [][LET s == last'.symbol
           p == last'.price
           q == last'.quantity
       IN  /\ (last'.op = "buy" /\ last'.result = "True" /\ s \notin DOMAIN positions)
              => positions'[s].avg_cost = <<p, 1>>
           /\ (last'.op = "buy" /\ last'.result = "True" /\ s \in DOMAIN positions)
              => LET c0 == positions[s].avg_cost
                     q0 == positions[s].quantity
                     c1 == positions'[s].avg_cost
                     n  == c0[1] * q0 + p * q * c0[2]
                     d  == c0[2] * (q0 + q)
                 IN  \* c1 = n / d, both sides in lowest terms
                     /\ c1[1] = n \div GCD(n, d)
                     /\ c1[2] = d \div GCD(n, d)
           /\ (last'.op = "sell" /\ last'.result = "True" /\ s \in DOMAIN positions')
              => positions'[s].avg_cost = positions[s].avg_cost
    ]_vars

\* a position blended from lots at two prices, then partly sold
C5_Witness ==
    /\ last.op = "sell" /\ last.result = "True"
    /\ last.symbol \in DOMAIN positions
    /\ positions[last.symbol].avg_cost[2] > 1

\* C6: trade_history is append-only: a call that returns True appends exactly
\* one entry at the end recording its symbol, action, price, quantity and
\* amount; a call that returns False appends nothing; earlier entries are never
\* changed, removed or reordered.
C6_AppendOnly ==
    [][/\ last'.result = "True" =>
            trade_history' = Append(trade_history,
                [symbol |-> last'.symbol, action |-> last'.op,
                 price |-> last'.price, quantity |-> last'.quantity,
                 amount |-> IF last'.op = "buy"
                            THEN (last'.price * last'.quantity * 10003) \div 100
                            ELSE (last'.price * last'.quantity * 9997) \div 100])
       /\ last'.result # "True" => trade_history' = trade_history
    ]_vars

\* a rejected call after three fills, buys and a sell among them
C6_Witness ==
    /\ last.result = "False"
    /\ Len(trade_history) >= 3
    /\ \E i, j \in 1..Len(trade_history) :
          i < j /\ trade_history[i].action = "buy" /\ trade_history[j].action = "sell"

\* C7: buy and sell calls issued concurrently against one MockTradeExecutor
\* are serialized: under every interleaving of their check and update steps
\* cash stays >= 0 and every held quantity stays >= 0.
C7_ConcurrentLedgerSafe ==
    /\ cash >= 0
    /\ \A s \in DOMAIN positions : positions[s].quantity >= 0

(***************************************************************************)
(* Properties of RiskControlAgent.run                                      *)
(***************************************************************************)
\* the decision's symbol has no entry in portfolio['positions']
SymbolNotHeld ==
    \A i \in 1..Len(portfolio.positions) : portfolio.positions[i].symbol # decision.symbol

\* C8: run returns adjusted_position <= max(0, max_single_position - existing
\* position of the decision's symbol), the existing position being 0 when the
\* symbol is not held; so adjusted_position never exceeds max_single_position.
C8_AdjustedWithinSingleCap ==
    r_pc = "returned" =>
        LET headroom == config.max_single_position - ExistingPosition IN
        check_result.adjusted_position <= (IF headroom < 0 THEN 0 ELSE headroom)

\* C9: run never returns approved = true together with adjusted_position = 0.
C9_NeverApprovedWithZero ==
    r_pc = "returned" =>
        ~(check_result.approved /\ check_result.adjusted_position = 0)

\* C10: a sell or strong_sell decision for a symbol with no existing position
\* makes run return at rule 1 with approved = false and adjusted_position = 0;
\* no later rule is evaluated (the locals are as they were on entry).
C10_SellRejectedAtOnce ==
    [][(r_pc = "rule1" /\ decision.decision \in {"sell", "strong_sell"} /\ SymbolNotHeld)
        => /\ r_pc' = "returned"
           /\ check_result'.approved = FALSE
           /\ check_result'.adjusted_position = 0
           /\ UNCHANGED <<adjusted_position, risk_level, warnings, reasons>>
    ]_vars

\* a sell for a symbol that is not held was rejected by rule 1 alone, in a
\* portfolio whose drawdown rule 7 would have rejected too
C10_Witness ==
    /\ r_pc = "returned"
    /\ decision.decision = "sell"
    /\ SymbolNotHeld
    /\ portfolio.drawdown > config.max_drawdown
    /\ ~check_result.approved
    /\ check_result.adjusted_position = 0
    /\ check_result.reasons = <<"sell_signal">>

\* the position that enters the cap rules: the requested one, halved (to an
\* integer) when the confidence is below 5
PositionAfterConfidence ==
    IF decision.confidence < 5 THEN decision.position \div 2 ELSE decision.position

\* C11: a confidence below 5 halves the requested position before any cap
\* rule (position count, total position, single-symbol position) is evaluated,
\* and the chain continues on the halved value: confidence 2 with requested
\* position 40 enters the cap rules as 20.
C11_HalvedBeforeCaps ==
    [][r_pc = "rule2" =>
        /\ adjusted_position = decision.position
        /\ reasons = <<>> /\ warnings = <<>>
        /\ r_pc' = "rule3"
        /\ adjusted_position' = PositionAfterConfidence
        /\ (decision.confidence < 5 /\ decision.position > 1)
              => adjusted_position' < decision.position
        /\ (decision.confidence = 2 /\ decision.position = 40)
              => adjusted_position' = 20
    ]_vars

\* confidence 2 and position 40: the count rule has passed and the total
\* position rule is about to read 20
C11_Witness ==
    /\ r_pc = "rule4"
    /\ decision.confidence = 2 /\ decision.position = 40
    /\ adjusted_position = 20
    /\ warnings = <<"low_confidence_halved">>

\* C12: when total_position + requested position > max_total_position, the
\* position is clamped to headroom = max_total_position - total_position if
\* that is > 0, and otherwise the result is approved = false with
\* adjusted_position = 0; every approved result satisfies
\* total_position + adjusted_position <= max_total_position.
C12_TotalPositionCap ==
    [][LET headroom == config.max_total_position - portfolio.total_position
           over == portfolio.total_position + PositionAfterConfidence
                       > config.max_total_position
       IN  /\ (r_pc = "rule4" /\ over)
              => adjusted_position' = (IF headroom > 0 THEN headroom ELSE 0)
           /\ (r_pc = "rule4" /\ ~over)
              => adjusted_position' = adjusted_position
           /\ (r_pc' = "returned" /\ r_pc = "final" /\ over /\ headroom <= 0)
              => /\ check_result'.approved = FALSE
                 /\ check_result'.adjusted_position = 0
           /\ (r_pc' = "returned" /\ check_result'.approved)
              => portfolio.total_position + check_result'.adjusted_position
                     <= config.max_total_position
    ]_vars

\* an approved result whose position was clamped to the headroom that the
\* total position left
C12_Witness ==
    /\ r_pc = "returned"
    /\ check_result.approved
    /\ portfolio.total_position + decision.position > config.max_total_position
    /\ check_result.adjusted_position > 0
    /\ check_result.adjusted_position
          = config.max_total_position - portfolio.total_position
    /\ check_result.warnings = <<"total_position_clamped">>

\* C13: for a non-sell decision, whenever a hard-reject condition holds (held
\* symbols >= max_positions; the decision's symbol held with a loss above
\* max_loss_per_stock; drawdown above max_drawdown), the result is
\* approved = false, adjusted_position = 0 and risk_level = high.
C13_HardReject ==
    (/\ r_pc = "returned"
     /\ decision.decision \notin {"sell", "strong_sell"}
     /\ \/ Len(portfolio.positions) >= config.max_positions
        \/ /\ ~SymbolNotHeld
           /\ ExistingPosition # 0
           /\ (\/ portfolio.loss[decision.symbol] > config.max_loss_per_stock
               \/ -portfolio.loss[decision.symbol] > config.max_loss_per_stock)
        \/ portfolio.drawdown > config.max_drawdown)
    => /\ check_result.approved = FALSE
       /\ check_result.adjusted_position = 0
       /\ check_result.risk_level = "high"

\* a buy for a held symbol whose loss is beyond the limit, rejected by the
\* loss rule alone after the single-symbol rule had clamped it
C13_Witness ==
    /\ r_pc = "returned"
    /\ decision.decision = "buy"
    /\ check_result.reasons = <<"stock_loss_exceeded">>
    /\ check_result.warnings = <<"single_position_clamped">>
    /\ check_result.risk_level = "high"
    /\ ~check_result.approved

LevelRank(level) ==
    IF level = "high" THEN 3 ELSE IF level = "medium" THEN 2
    ELSE IF level = "low" THEN 1 ELSE 0

\* C14: while run evaluates its rule chain, risk_level only moves upward in
\* the order low < medium < high: no rule lowers it.
C14_RiskLevelMonotone ==
    [][(r_pc \in {"rule1", "rule2", "rule3", "rule4", "rule5", "rule6", "rule7", "final"}
        /\ r_pc' # "idle")
        => LevelRank(risk_level') >= LevelRank(risk_level)
    ]_vars

\* C15: every rule that changes the position adds a note to warnings: a
\* returned adjusted_position different from the requested position implies
\* warnings is non-empty.
C15_ChangeHasWarning ==
    (r_pc = "returned" /\ check_result.adjusted_position # decision.position)
        => check_result.warnings # <<>>

\* the rule chain, run rule by rule, returns what RunResult gives for the
\* configuration in force
RunMatchesRunResult ==
    r_pc = "returned" => check_result = RunResult(config, decision, portfolio)

\* C16: run is a pure function of its arguments: two calls with equal
\* (decision, portfolio, config) arguments return equal results whatever calls
\* the agent served before, so every result is the one a fresh agent returns
\* for the same arguments.
C16_ResultDependsOnArgumentsOnly ==
    r_pc = "returned" =>
        check_result
            = RunResult(ConfigUpdate(DefaultConfig, config_arg), decision, portfolio)

(***************************************************************************)
(* Properties of the decision maker and of the composite score             *)
(***************************************************************************)

\* C17: every composite score s maps to exactly one tier, with the boundaries
\* on the documented side: s > 50 strong_buy; 30 < s <= 50 buy;
\* -30 <= s <= 30 hold; -50 <= s < -30 sell; s < -50 strong_sell.
C17_TierBoundaries ==
    LET s == composite_score
        documented == IF s > 500 THEN "strong_buy"
                      ELSE IF s > 300 THEN "buy"
                      ELSE IF s >= -300 THEN "hold"
                      ELSE IF s >= -500 THEN "sell"
                      ELSE "strong_sell"
    IN  decision_result # NoDecisionResult
            => decision_result.decision = documented

\* C18: for every composite score s in [-100, 100] the decision has
\* 0 <= position <= 100 and 0 <= confidence <= 10; the position is the whole
\* number next to the value of its tier's position formula (less than 1
\* away), the confidence is the value of its tier's confidence formula; for
\* s = 60 the decision is strong_buy with position 100 and confidence 7.
C18_PositionAndConfidenceRanges ==
    LET s == composite_score
        d == decision_result
        \* the tier's position formula, in twentieths
        formula == CASE d.decision = "strong_buy" -> Min(2000, 1000 + 2 * s)
                     [] d.decision = "buy" -> Min(1600, 600 + s)
                     [] d.decision = "hold" -> Min(600, 2 * s + 600)
                     [] d.decision = "sell" -> Max(0, 1000 + s)
                     [] d.decision = "strong_sell" -> Max(0, 1000 + 2 * s)
        \* the tier's confidence formula, in hundredths
        conf == CASE d.decision = "strong_buy" -> Min(1000, 2 * (s - 500) + 500)
                  [] d.decision = "buy" -> Min(1000, 5 * (s - 300) + 500)
                  [] d.decision = "hold" -> 500
                  [] d.decision = "sell" -> Min(1000, 5 * (-s - 300) + 500)
                  [] d.decision = "strong_sell" -> Min(1000, 2 * (-s - 500) + 500)
    IN  (d # NoDecisionResult /\ s >= -1000 /\ s <= 1000) =>
            /\ d.position >= 0 /\ d.position <= 100
            /\ d.confidence >= 0 /\ d.confidence <= 1000
            /\ Abs(20 * d.position - formula) < 20
            /\ d.confidence = conf
            /\ s = 600 => d = DecisionResult("strong_buy", 100, 700)

\* the score-60 scenario has been decided
C18_Witness ==
    /\ composite_score = 600
    /\ decision_result = DecisionResult("strong_buy", 100, 700)

C20_SentimentRaisesScore ==
    s_pc = "decision_maker" =>
        \A larger \in Sentiments :
            larger > sentiment_score =>
                FracLess(score,
                         CalculateCompositeScore(
                             [factors EXCEPT !["sentiment"] = larger * 10], weights))

\* C24: a buy or sell call with a negative quantity fails fast with an error
\* that is neither the plain False of a business rejection nor a success, and
\* leaves cash, positions and trade_history unchanged.
C24_NegativeQuantityFailsFast ==
    [][last'.quantity < 0 =>
          /\ last'.result \notin {"True", "False"}
          /\ UNCHANGED <<cash, positions, trade_history>>]_vars

RECURSIVE SumQuantity(_, _, _)
\* the quantities of the entries of `history` for `symbol` and `action`, added up
SumQuantity(history, symbol, action) ==
    IF history = <<>> THEN 0
    ELSE (IF Head(history).symbol = symbol /\ Head(history).action = action
          THEN Head(history).quantity ELSE 0)
         + SumQuantity(Tail(history), symbol, action)

RECURSIVE SumAmount(_, _)
\* the amounts of the entries of `history` for `action`, added up
SumAmount(history, action) ==
    IF history = <<>> THEN 0
    ELSE (IF Head(history).action = action THEN Head(history).amount ELSE 0)
         + SumAmount(Tail(history), action)

\* C27: after any sequence of buy and sell calls with positive prices and
\* quantities, for every symbol the held quantity (0 when absent) equals the
\* bought quantities minus the sold quantities of trade_history, and cash
\* equals initial_capital minus the buy amounts plus the sell amounts.
C27_LedgerAgreesWithHistory ==
    /\ \A s \in Symbols :
          HeldQuantity(positions, s)
              = SumQuantity(trade_history, s, "buy") - SumQuantity(trade_history, s, "sell")
    /\ cash = initial_capital - SumAmount(trade_history, "buy")
                              + SumAmount(trade_history, "sell")

\* a symbol was bought twice and partly sold, another call was rejected
C27_Witness ==
    /\ last.result = "False"
    /\ \E s \in Symbols :
          /\ SumQuantity(trade_history, s, "buy") > 100
          /\ SumQuantity(trade_history, s, "sell") > 0
          /\ HeldQuantity(positions, s) > 0

\* the prices dictionaries that price every symbol
PriceMaps == [Symbols -> Prices]

\* every trade of trade_history was made at the symbol's price in `prices`
TradedAt(prices) ==
    \A i \in 1..Len(trade_history) :
        trade_history[i].price = prices[trade_history[i].symbol]

RECURSIVE Fees(_)
\* 0.0003 * price * quantity over the trades of `history`, in cents
Fees(history) ==
    IF history = <<>> THEN 0
    ELSE (Head(history).price * Head(history).quantity * 3) \div 100
         + Fees(Tail(history))

C30_GateOnlyReduces ==
    (/\ r_pc = "returned"
     /\ decision.position >= 0 /\ decision.position <= 100
     /\ portfolio.total_position >= 0
     /\ \A i \in 1..Len(portfolio.positions) : portfolio.positions[i].position >= 0)
        => /\ check_result.adjusted_position >= 0
           /\ check_result.adjusted_position <= decision.position

\* an approved result whose position was halved and then clamped again
C30_Witness ==
    /\ r_pc = "returned"
    /\ check_result.approved
    /\ decision.position = 40
    /\ Len(check_result.warnings) >= 2
    /\ check_result.adjusted_position > 0
    /\ check_result.adjusted_position < 20

(***************************************************************************)
(* Properties of the trade executor                                        *)
(***************************************************************************)

\* C21: run_with_decision, given an approved risk result with adjusted
\* position a > 0 and a price > 0, trades quantity =
\* floor(1,000,000 * a/100 / price / 100) * 100; when that quantity is below
\* 100 it returns a failure and creates no order and no trade log; otherwise
\* the order quantity is a positive multiple of 100 with
\* price * quantity <= 1,000,000 * a/100.
C21_LotQuantity ==
    [][LET rr == request'.risk_result
           a == Get(rr, "adjusted_position", 0)
           floored == ((10000 * a) \div request'.price) * 100
       IN  (/\ calls' = calls + 1
            /\ request'.op = "run_with_decision"
            /\ "approved" \in DOMAIN rr /\ rr.approved = TRUE
            /\ a > 0 /\ request'.price > 0)
               => IF floored < 100
                  THEN /\ ~response'.success
                       /\ response'.data = NoOrder
                       /\ UNCHANGED <<orders, logs>>
                  ELSE /\ response'.success
                       /\ response'.data.quantity = floored
                       /\ floored % 100 = 0
                       /\ request'.price * response'.data.quantity <= 10000 * a * 100
                       /\ Len(logs') = Len(logs) + 1
                       /\ logs'[Len(logs')].order_id = response'.data.order_id
                       /\ logs'[Len(logs')].quantity = floored]_vars

\* C22: when the risk result passed to run_with_decision is not approved
\* (approved false or missing), the call returns a structured failure whose
\* error carries the rejection reasons, and leaves orders and logs unchanged.
C22_RejectedIsNotExecuted ==
    [][LET rr == request'.risk_result
       IN  (/\ calls' = calls + 1
            /\ request'.op = "run_with_decision"
            /\ ("approved" \notin DOMAIN rr \/ rr.approved = FALSE))
               => /\ ~response'.success
                  /\ response'.data = NoOrder
                  /\ response'.error.text = "Risk control rejected"
                  /\ response'.error.reasons
                        = (IF "reasons" \in DOMAIN rr THEN rr.reasons ELSE <<>>)
                  /\ UNCHANGED <<orders, logs>>]_vars

\* a result without `approved` but with a position was refused after an
\* order had been logged
C22_Witness ==
    /\ request.op = "run_with_decision"
    /\ "approved" \notin DOMAIN request.risk_result
    /\ request.risk_result.adjusted_position = 11
    /\ response.error = RiskRejectedError(<<"stock_loss_exceeded">>)
    /\ Len(logs) = 1

\* C23: every order run creates has an order_id different from the order_id
\* of every order the same executor created before, however close together
\* in time they are created.
C23_OrderIdsUnique ==
    \A i, j \in 1..Len(logs) : i # j => logs[i].order_id # logs[j].order_id

\* C26: after run returns a successful result holding a filled order with
\* order_id X, get_order(X) returns that order and get_orders() and
\* get_orders('filled') contain it.
C26_FilledOrderIsStored ==
    response.success =>
        /\ GetOrder(response.data.order_id) = response.data
        /\ response.data \in GetAllOrders
        /\ response.data \in GetOrders("filled")

\* C29: when the risk result given to run_with_decision is the one
\* RiskControlAgent.run or SimpleRiskChecker.check_decision produced for the
\* same decision, every sell or strong_sell decision is refused, also when
\* the symbol is held, and every order created is a buy.
C29_NoSellThroughGate ==
    /\ \A i \in 1..Len(logs) : logs[i].action = "buy"
    /\ (/\ request.op = "run_with_decision"
        /\ request.decision.decision \in {"sell", "strong_sell"})
           => /\ ~response.success
              /\ response.data = NoOrder
              /\ logs = <<>>

\* a sell decision for a held symbol went through RiskControlAgent.run and
\* was refused by run_with_decision
C29_Witness ==
    /\ r_pc = "returned"
    /\ request.op = "run_with_decision"
    /\ request.decision = decision
    /\ decision.decision = "sell"
    /\ ExistingPosition > 0
    /\ response.error = RiskRejectedError(<<"sell_signal">>)
    /\ logs = <<>>

(***************************************************************************)
(* Properties of the technical indicators                                  *)
(***************************************************************************)

\* C25: calculate_all_indicators applied to a series with fewer bars than an
\* indicator's lookback window (a single bar included) does not raise and
\* returns the neutral defaults for the current point: rsi = 50,
\* k = d = j = 50 and macd_histogram = 0, never NaN.
C25_ShortSeriesNeutralDefaults ==
    all_indicators # NoIndicators =>
        /\ all_indicators.raised = ""
        /\ Len(df) < RsiPeriod => Equal(all_indicators.rsi, FromInteger(50))
        /\ Len(df) < KdjPeriod =>
              /\ Equal(all_indicators.k, FromInteger(50))
              /\ Equal(all_indicators.d, FromInteger(50))
              /\ Equal(all_indicators.j, FromInteger(50))
        /\ Len(df) < MacdSlow => Equal(all_indicators.macd_histogram, FromInteger(0))

====
